---- MODULE Spec2Model ----
(***************************************************************************)
(* Zodirectus: generation of Zod schemas and TypeScript types from the     *)
(* collection/field metadata of a Directus server.                         *)
(*                                                                         *)
(* Strings the code inspects character by character (collection names,     *)
(* field names, generated identifiers) are sequences of one-character      *)
(* strings.  Generated text is a sequence of tokens: a token is either a   *)
(* literal piece of the template (lit) or a word built from names (word),  *)
(* so that the regular expressions the code runs over the generated text   *)
(* are run over the words.                                                 *)
(***************************************************************************)
EXTENDS Integers, Sequences, FiniteSets, TLC

----------------------------------------------------------------------------
(* Characters *)

Lower == <<"a","b","c","d","e","f","g","h","i","j","k","l","m",
           "n","o","p","q","r","s","t","u","v","w","x","y","z">>
Upper == <<"A","B","C","D","E","F","G","H","I","J","K","L","M",
           "N","O","P","Q","R","S","T","U","V","W","X","Y","Z">>

AlphabetSize == Len(Lower)

LowerSet == {Lower[i] : i \in 1..AlphabetSize}
UpperSet == {Upper[i] : i \in 1..AlphabetSize}

IsLower(c) == c \in LowerSet
IsUpper(c) == c \in UpperSet
IsLetter(c) == IsLower(c) \/ IsUpper(c)

UpperOf == [c \in LowerSet |-> Upper[CHOOSE i \in 1..AlphabetSize : Lower[i] = c]]
LowerOf == [c \in UpperSet |-> Lower[CHOOSE i \in 1..AlphabetSize : Upper[i] = c]]

toUpperCase(c) == IF IsLower(c) THEN UpperOf[c] ELSE c

toLowerCase(c) == IF IsUpper(c) THEN LowerOf[c] ELSE c

(* /[-_\s]/ : the separators of toPascalCase's split *)
IsSeparator(c) == c \in {"-", "_", " "}

----------------------------------------------------------------------------
(* String primitives of JavaScript, on sequences of characters *)

StrLower(s) == [i \in 1..Len(s) |-> toLowerCase(s[i])]
StrUpper(s) == [i \in 1..Len(s) |-> toUpperCase(s[i])]

endsWith(s, suf) ==
  /\ Len(suf) <= Len(s)
  /\ SubSeq(s, Len(s) - Len(suf) + 1, Len(s)) = suf

startsWith(s, pre) ==
  /\ Len(pre) <= Len(s)
  /\ SubSeq(s, 1, Len(pre)) = pre

(* s.includes(sub) *)
includes(s, sub) ==
  \E i \in 1..(Len(s) - Len(sub) + 1) : SubSeq(s, i, i + Len(sub) - 1) = sub

(* the position (1-based) of the first occurrence of sub in s, 0 when none *)
indexOf(s, sub) ==
  IF includes(s, sub)
  THEN CHOOSE i \in 1..(Len(s) - Len(sub) + 1) :
         /\ SubSeq(s, i, i + Len(sub) - 1) = sub
         /\ \A j \in 1..(i - 1) : SubSeq(s, j, j + Len(sub) - 1) # sub
  ELSE 0

(* s.replace(sub, ''): a string pattern replaces the first occurrence only *)
removeFirst(s, sub) ==
  LET i == indexOf(s, sub)
  IN IF i = 0 THEN s
     ELSE SubSeq(s, 1, i - 1) \o SubSeq(s, i + Len(sub), Len(s))

(* word.slice(0, -n) *)
sliceEnd(s, n) == IF n >= Len(s) THEN <<>> ELSE SubSeq(s, 1, Len(s) - n)

----------------------------------------------------------------------------
(* Naming conventions: Zodirectus / ZodGenerator private helpers *)

(* toPascalCase: split(/[-_\s]+/), capitalise each word and lower-case its
   rest, join.  Empty words (leading, trailing separators) contribute nothing. *)
RECURSIVE PascalFrom(_, _, _)
PascalFrom(s, i, wordStart) ==
  IF i > Len(s) THEN <<>>
  ELSE IF IsSeparator(s[i]) THEN PascalFrom(s, i + 1, TRUE)
  ELSE <<IF wordStart THEN toUpperCase(s[i]) ELSE toLowerCase(s[i])>>
       \o PascalFrom(s, i + 1, FALSE)

toPascalCase(str) == PascalFrom(str, 1, TRUE)

(* toSingular: the generic plural rules (the lookup table is commented out) *)
toSingular(word) ==
  IF endsWith(word, <<"i","e","s">>) THEN sliceEnd(word, 3) \o <<"y">>
  ELSE IF \/ endsWith(word, <<"s","e","s">>)
          \/ endsWith(word, <<"s","h","e","s">>)
          \/ endsWith(word, <<"c","h","e","s">>)
          \/ endsWith(word, <<"x","e","s">>)
          \/ endsWith(word, <<"z","e","s">>)
       THEN sliceEnd(word, 2)
  ELSE IF endsWith(word, <<"s">>) /\ Len(word) > 1 THEN sliceEnd(word, 1)
  ELSE word

(* toKebabCase, first replace: /([a-z])([A-Z])/g -> '$1-$2' *)
RECURSIVE HyphenateFrom(_, _)
HyphenateFrom(s, i) ==
  IF i > Len(s) THEN <<>>
  ELSE IF i < Len(s) /\ IsLower(s[i]) /\ IsUpper(s[i + 1])
       THEN <<s[i], "-">> \o HyphenateFrom(s, i + 1)
  ELSE <<s[i]>> \o HyphenateFrom(s, i + 1)

(* toKebabCase, second replace: /[\s_]+/g -> '-' *)
RECURSIVE CollapseFrom(_, _)
CollapseFrom(s, i) ==
  IF i > Len(s) THEN <<>>
  ELSE IF s[i] \in {"_", " "}
       THEN IF i > 1 /\ s[i - 1] \in {"_", " "}
            THEN CollapseFrom(s, i + 1)
            ELSE <<"-">> \o CollapseFrom(s, i + 1)
  ELSE <<s[i]>> \o CollapseFrom(s, i + 1)

toKebabCase(str) == StrLower(CollapseFrom(HyphenateFrom(str, 1), 1))

(* the name a collection goes by in identifiers, graph nodes and file names *)
(* the PascalCase name left in the plural *)
SingularNameKeepPlural(collectionName) == toPascalCase(collectionName)

SingularName(collectionName) == toSingular(toPascalCase(collectionName))

----------------------------------------------------------------------------
(* Generated text *)

Lit(s) == [lit |-> s, word |-> <<>>]
Word(w) == [lit |-> "", word |-> w]
IsWord(tok) == tok.lit = ""

(* text.includes(identifier), for an identifier that is a whole word *)
HasWord(text, w) == \E i \in 1..Len(text) : IsWord(text[i]) /\ includes(text[i].word, w)
HasLit(text, s) == \E i \in 1..Len(text) : text[i] = Lit(s)

RECURSIVE Flatten(_)
Flatten(seqs) == IF seqs = <<>> THEN <<>> ELSE Head(seqs) \o Flatten(Tail(seqs))

(* parts.join(sep) for texts *)
RECURSIVE Join(_, _)
Join(parts, sep) ==
  IF parts = <<>> THEN <<>>
  ELSE IF Len(parts) = 1 THEN parts[1]
  ELSE parts[1] \o <<sep>> \o Join(Tail(parts), sep)

cDrx == <<"D","r","x">>
cDrs == <<"D","r","s">>
cSchema == <<"S","c","h","e","m","a">>
cCreate == <<"C","r","e","a","t","e">>
cUpdate == <<"U","p","d","a","t","e">>
cGet == <<"G","e","t">>
cId == <<"i","d">>

(* the end of the maximal run of letters of s that starts at i (i - 1 when
   s[i] is no letter) *)
RECURSIVE LetterRunEnd(_, _)
LetterRunEnd(s, i) ==
  IF i <= Len(s) /\ IsLetter(s[i]) THEN LetterRunEnd(s, i + 1) ELSE i - 1

(* /Drx[A-Z][a-zA-Z]*Schema/ anchored at i: the end of the (greedy) match, 0
   when there is none *)
SchemaMatchEnd(s, i) ==
  IF /\ i + 3 <= Len(s)
     /\ SubSeq(s, i, i + 2) = cDrx
     /\ IsUpper(s[i + 3])
  THEN LET e == LetterRunEnd(s, i + 4)
           ends == {j \in (i + 3 + Len(cSchema))..e :
                      SubSeq(s, j - Len(cSchema) + 1, j) = cSchema}
       IN IF ends = {} THEN 0 ELSE CHOOSE j \in ends : \A k \in ends : k <= j
  ELSE 0

(* /Drs[A-Z][a-zA-Z]*/ anchored at i *)
TypeMatchEnd(s, i) ==
  IF /\ i + 3 <= Len(s)
     /\ SubSeq(s, i, i + 2) = cDrs
     /\ IsUpper(s[i + 3])
  THEN LetterRunEnd(s, i + 4)
  ELSE 0

MatchEnd(kind, s, i) ==
  IF kind = "schema" THEN SchemaMatchEnd(s, i) ELSE TypeMatchEnd(s, i)

(* s.match(/.../g) within one word: the matches from left to right *)
RECURSIVE MatchesFrom(_, _, _)
MatchesFrom(kind, s, i) ==
  IF i > Len(s) THEN <<>>
  ELSE LET e == MatchEnd(kind, s, i)
       IN IF e = 0 THEN MatchesFrom(kind, s, i + 1)
          ELSE <<SubSeq(s, i, e)>> \o MatchesFrom(kind, s, e + 1)

(* text.match(/.../g): no match spans two tokens, the literals of the
   templates hold neither "Drx" nor "Drs" *)
RECURSIVE TextMatches(_, _)
TextMatches(kind, text) ==
  IF text = <<>> THEN <<>>
  ELSE (IF IsWord(Head(text)) THEN MatchesFrom(kind, Head(text).word, 1) ELSE <<>>)
       \o TextMatches(kind, Tail(text))

schemaMatches(text) == TextMatches("schema", text)
typeMatches(text) == TextMatches("type", text)

----------------------------------------------------------------------------
(* DirectusField.  type, data_type and interface are compared as wholes by the
   code and are plain strings here ("" = absent); field and foreign_key_table
   are inspected by character.  required and is_nullable are "true", "false"
   or "absent".  choices and options hold the values of meta.options.choices
   and meta.options.options.  The inputs carry no meta.options.suggestions,
   .presets or .fields (autocomplete, tag and repeater fields come without
   them). *)

directusType(field) == IF field.data_type # "" THEN field.data_type ELSE field.type

(* field.meta?.required ?? false *)
isRequired(field) == field.required = "true"

(* field.schema?.is_nullable ?? true *)
isNullable(field) == field.is_nullable # "false"

(* interface_.includes(kind) for kind in m2o, o2m, m2a *)
interfaceIncludes(interface, kind) ==
  \/ kind = "m2o" /\ interface \in {"select-dropdown-m2o", "m2o"}
  \/ kind = "o2m" /\ interface \in {"list-o2m", "o2m"}
  \/ kind = "m2a" /\ interface \in {"list-m2a", "m2a"}

isDividerField(field) ==
  \/ startsWith(field.field, <<"d","i","v","i","d","e","r","-">>)
  \/ field.interface = "divider"
  \/ field.type = "divider"

isFileField(field) ==
  \/ "file" \in field.special
  \/ "files" \in field.special
  \/ field.interface \in {"file", "file-image", "files"}

generateFileSchema(field) ==
  IF field.interface = "files" \/ "files" \in field.special
  THEN <<Lit("z.array("), Word(cDrx \o <<"F","i","l","e">> \o cSchema), Lit(")")>>
  ELSE IF field.interface = "file-image"
  THEN <<Word(cDrx \o <<"I","m","a","g","e","F","i","l","e">> \o cSchema)>>
  ELSE <<Word(cDrx \o <<"F","i","l","e">> \o cSchema)>>

(* [...new Set(values)] *)
RECURSIVE Dedup(_)
Dedup(s) ==
  IF s = <<>> THEN <<>>
  ELSE LET rest == Dedup(SubSeq(s, 1, Len(s) - 1))
           last == s[Len(s)]
       IN IF \E i \in 1..Len(rest) : rest[i] = last THEN rest ELSE Append(rest, last)

Quoted(v) == <<Lit("\""), Lit(v), Lit("\"")>>

(* values.map(v => `"${v}"`).join(', ') inside z.enum([ ]) *)
EnumOf(values) ==
  <<Lit("z.enum([")>>
  \o Join([i \in 1..Len(values) |-> Quoted(values[i])], Lit(", "))
  \o << Lit("])") >>

isRadioButtonField(field) == field.interface = "select-radio"

generateRadioButtonSchema(field) ==
  IF Len(field.choices) > 0 THEN EnumOf(Dedup(field.choices)) ELSE <<Lit("z.string()")>>

isDropdownMultipleField(field) == field.interface = "select-multiple-dropdown"

generateDropdownMultipleSchema(field) ==
  IF Len(field.choices) > 0
  THEN <<Lit("z.array(")>> \o EnumOf(Dedup(field.choices)) \o <<Lit(")")>>
  ELSE <<Lit("z.array(z.string())")>>

isCheckboxTreeField(field) == field.interface = "select-multiple-checkbox-tree"

(* the choices of the inputs are leaves with non-empty values *)
generateCheckboxTreeSchema(field) ==
  IF Len(field.choices) > 0
  THEN <<Lit("z.array(")>> \o EnumOf(Dedup(field.choices)) \o <<Lit(")")>>
  ELSE <<Lit("z.array(z.string())")>>

cDate == <<"d","a","t","e">>
cTime == <<"t","i","m","e">>
cTs == <<"t","s">>
cDatetime == <<"d","a","t","e","t","i","m","e">>

isDateTimeField(field) ==
  LET fieldName == StrLower(field.field)
  IN \/ directusType(field) \in {"timestamp", "datetime", "date", "time"}
     \/ field.interface \in {"datetime", "date", "time"}
     \/ includes(fieldName, cDate)
     \/ includes(fieldName, cTime)
     \/ fieldName = cTs

generateDateTimeSchema(field) ==
  LET fieldName == StrLower(field.field)
      dt == directusType(field)
  IN IF dt = "date" \/ field.interface = "date" \/ fieldName = cDate
     THEN <<Lit("z.string().date()")>>
     ELSE IF dt = "time" \/ field.interface = "time" \/ fieldName = cTime
     THEN <<Lit("z.string().time()")>>
     ELSE <<Lit("z.string().datetime()")>>

isAutocompleteField(field) == field.interface = "autocomplete"

generateAutocompleteSchema(field) == <<Lit("z.string()")>>

isTagField(field) == "cast-json" \in field.special /\ field.interface = "tags"

generateTagSchema(field) == <<Lit("z.array(z.string())")>>

(* options.fields is never a non-empty array in the inputs *)
isRepeaterField(field) == FALSE

isRelationField(field) ==
  \/ "m2o" \in field.special
  \/ "o2m" \in field.special
  \/ "m2a" \in field.special
  \/ interfaceIncludes(field.interface, "m2o")
  \/ interfaceIncludes(field.interface, "o2m")
  \/ interfaceIncludes(field.interface, "m2a")

cActivityLogs == <<"a","c","t","i","v","i","t","y","_","l","o","g","s">>
cAuditActivityLogs == <<"a","u","d","i","t","_">> \o cActivityLogs

(* <<>> is null *)
getRelatedCollectionName(field) ==
  IF "m2o" \in field.special /\ field.foreign_key_table # <<>>
  THEN field.foreign_key_table
  ELSE IF "o2m" \in field.special /\ field.field = cActivityLogs
  THEN cAuditActivityLogs
  ELSE <<>>

(* one value of z.enum([...]) for a field with choices or options *)
ChoiceValue(dt, v) ==
  IF dt \in {"integer", "bigint", "decimal", "float", "real"} THEN <<Lit(v)>>
  ELSE IF dt = "boolean" THEN <<Lit(IF v = "true" THEN "true" ELSE "false")>>
  ELSE Quoted(v)

ChoicesEnum(dt, values) ==
  <<Lit("z.enum([")>>
  \o Join([i \in 1..Len(values) |-> ChoiceValue(dt, values[i])], Lit(", "))
  \o << Lit("])") >>

(* the switch over the data type; mappings is config.customFieldMappings, a
   function from type names to schema strings *)
RegularZodType(dt, mappings) ==
  IF dt = "uuid" THEN "z.string().uuid()"
  ELSE IF dt \in {"varchar", "char", "text", "longtext", "character varying"}
  THEN "z.string()"
  ELSE IF dt \in {"integer", "bigint", "smallint", "tinyint"} THEN "z.number().int()"
  ELSE IF dt \in {"decimal", "float", "double"} THEN "z.number()"
  ELSE IF dt = "boolean" THEN "z.boolean()"
  ELSE IF dt = "date" THEN "z.string().date()"
  ELSE IF dt \in {"datetime", "timestamp"} THEN "z.string().datetime()"
  ELSE IF dt = "time" THEN "z.string().time()"
  ELSE IF dt \in {"json", "geometry"} THEN "z.any()"
  ELSE IF dt = "binary" THEN "z.string()"
  ELSE IF dt \in DOMAIN mappings /\ mappings[dt] # "" THEN mappings[dt]
  ELSE "z.string()"

getZodType(field, mappings) ==
  LET dt == directusType(field)
      relatedCollection == getRelatedCollectionName(field)
      relatedSchemaName == Word(cDrx \o SingularName(relatedCollection) \o cSchema)
  IN IF isFileField(field) THEN generateFileSchema(field)
     ELSE IF isRadioButtonField(field) THEN generateRadioButtonSchema(field)
     ELSE IF isDropdownMultipleField(field) THEN generateDropdownMultipleSchema(field)
     ELSE IF isCheckboxTreeField(field) THEN generateCheckboxTreeSchema(field)
     ELSE IF isDateTimeField(field) THEN generateDateTimeSchema(field)
     ELSE IF isAutocompleteField(field) THEN generateAutocompleteSchema(field)
     ELSE IF isTagField(field) THEN generateTagSchema(field)
     ELSE IF /\ isRelationField(field)
             /\ relatedCollection # <<>>
             /\ "m2o" \in field.special
     THEN <<relatedSchemaName>>
     ELSE IF /\ isRelationField(field)
             /\ relatedCollection # <<>>
             /\ ("o2m" \in field.special \/ "m2a" \in field.special)
     THEN <<Lit("z.array("), relatedSchemaName, Lit(")")>>
     ELSE IF Len(field.choices) > 0 THEN ChoicesEnum(dt, field.choices)
     ELSE IF Len(field.options) > 0 THEN ChoicesEnum(dt, field.options)
     ELSE IF "uuid" \in field.special THEN <<Lit("z.string().uuid()")>>
     ELSE IF "date-created" \in field.special \/ "date-updated" \in field.special
     THEN <<Lit("z.string().datetime()")>>
     ELSE IF "user-created" \in field.special \/ "user-updated" \in field.special
     THEN <<Lit("z.string()")>>
     ELSE IF "sort" \in field.special THEN <<Lit("z.number().int()")>>
     ELSE <<Lit(RegularZodType(dt, mappings))>>

(* the field entry with .nullable() appended whatever required is *)
generateFieldSchemaNullableAlways(field, mappings) ==
  <<Word(field.field), Lit(": ")>>
  \o getZodType(field, mappings)
  \o (IF isNullable(field) THEN <<Lit(".nullable()")>> ELSE <<>>)
  \o (IF ~isRequired(field) THEN <<Lit(".optional()")>> ELSE <<>>)

generateFieldSchema(field, mappings) ==
  <<Word(field.field), Lit(": ")>>
  \o getZodType(field, mappings)
  \o (IF isNullable(field) /\ ~isRequired(field) THEN <<Lit(".nullable()")>> ELSE <<>>)
  \o (IF ~isRequired(field) THEN <<Lit(".optional()")>> ELSE <<>>)

(* s.replace(sub, rep) with a string pattern: the first occurrence only *)
replaceFirst(s, sub, rep) ==
  LET i == indexOf(s, sub)
  IN IF i = 0 THEN s
     ELSE SubSeq(s, 1, i - 1) \o rep \o SubSeq(s, i + Len(sub), Len(s))

(* the test that never finds the field *)
hasFieldNever(fields, name) == FALSE

hasField(fields, name) == \E i \in 1..Len(fields) : fields[i].field = name

cSystemFields ==
  << <<"u","s","e","r","_","c","r","e","a","t","e","d">>,
     <<"d","a","t","e","_","c","r","e","a","t","e","d">>,
     <<"u","s","e","r","_","u","p","d","a","t","e","d">>,
     <<"d","a","t","e","_","u","p","d","a","t","e","d">> >>

(* the list that omits every system field, present or not *)
getFieldsToOmitForCreateAll(fields, hasIdField) == <<cId>> \o cSystemFields

getFieldsToOmitForCreate(fields, hasIdField) ==
  <<cId>> \o SelectSeq(cSystemFields, LAMBDA n : hasField(fields, n))

(* fieldsToOmit.map(field => `    ${field}: true`).join(',\n') *)
omitFieldsString(fieldsToOmit) ==
  Join([i \in 1..Len(fieldsToOmit) |-> <<Word(fieldsToOmit[i]), Lit(": true")>>],
       Lit(","))

(* ZodGenerator.generateSchema(collection, isCircularDependency) *)
generateSchema(collection, isCircularDependency, mappings) ==
  LET singularName == SingularName(collection.collection)
      schemaName == cDrx \o singularName \o cSchema
      filteredFields == SelectSeq(collection.fields, LAMBDA f : ~isDividerField(f))
      hasIdField == hasField(filteredFields, cId)
      generated == [i \in 1..Len(filteredFields) |->
                      generateFieldSchema(filteredFields[i], mappings)]
      fields == IF hasIdField THEN generated
                ELSE << <<Word(cId), Lit(": "), Lit("z.string().uuid()"),
                          Lit(".optional()")>> >> \o generated
      fieldsString == Join(fields, Lit(","))
      createSchemaName == replaceFirst(schemaName, cSchema, cCreate \o cSchema)
      updateSchemaName == replaceFirst(schemaName, cSchema, cUpdate \o cSchema)
      getSchemaName == replaceFirst(schemaName, cSchema, cGet \o cSchema)
      omitted == omitFieldsString(getFieldsToOmitForCreate(filteredFields, hasIdField))
  IN IF isCircularDependency
     THEN <<Lit("export const "), Word(schemaName),
            Lit(": z.ZodType<any> = z.lazy(() => "), Lit("z.object({")>>
          \o fieldsString
          \o <<Lit("})"), Lit(");"),
               Lit("export const "), Word(createSchemaName),
               Lit(": z.ZodType<any> = z.lazy(() => ("), Word(schemaName),
               Lit(" as z.ZodObject<any>).omit({")>>
          \o omitted
          \o <<Lit("})"), Lit(");"),
               Lit("export const "), Word(updateSchemaName),
               Lit(": z.ZodType<any> = z.lazy(() => ("), Word(schemaName),
               Lit(" as z.ZodObject<any>).partial().required({"),
               Word(cId), Lit(": true"), Lit("})"), Lit(");"),
               Lit("export const "), Word(getSchemaName),
               Lit(": z.ZodType<any> = z.lazy(() => "), Word(schemaName),
               Lit(");")>>
     ELSE <<Lit("export const "), Word(schemaName), Lit(" = "), Lit("z.object({")>>
          \o fieldsString
          \o <<Lit("})"), Lit(";"),
               Lit("export const "), Word(createSchemaName), Lit(" = "),
               Word(schemaName), Lit(".omit({")>>
          \o omitted
          \o <<Lit("})"), Lit(";"),
               Lit("export const "), Word(updateSchemaName), Lit(" = "),
               Word(schemaName), Lit(".partial().required({"),
               Word(cId), Lit(": true"), Lit("})"), Lit(";"),
               Lit("export const "), Word(getSchemaName), Lit(" = "),
               Word(schemaName), Lit(";")>>

----------------------------------------------------------------------------
(* TypeGenerator *)

RegularTsType(dt, mappings) ==
  IF dt \in {"uuid", "varchar", "char", "text", "longtext", "character varying",
             "date", "datetime", "timestamp", "time", "binary"} THEN "string"
  ELSE IF dt \in {"integer", "bigint", "smallint", "tinyint",
                  "decimal", "float", "double"} THEN "number"
  ELSE IF dt = "boolean" THEN "boolean"
  ELSE IF dt \in {"json", "geometry"} THEN "any"
  ELSE IF dt \in DOMAIN mappings /\ mappings[dt] # "" THEN mappings[dt]
  ELSE "any"

(* choices.map(c => `"${c}"`).join(' | ') *)
UnionOf(values) == Join([i \in 1..Len(values) |-> Quoted(values[i])], Lit(" | "))

getTypeScriptType(field, mappings) ==
  LET dt == directusType(field)
      relatedCollection == getRelatedCollectionName(field)
      relatedTypeName == Word(cDrs \o toPascalCase(relatedCollection))
  IN IF /\ isRelationField(field)
        /\ relatedCollection # <<>>
        /\ "m2o" \in field.special
     THEN <<relatedTypeName>>
     ELSE IF /\ isRelationField(field)
             /\ relatedCollection # <<>>
             /\ ("o2m" \in field.special \/ "m2a" \in field.special)
     THEN <<relatedTypeName, Lit("[]")>>
     ELSE IF Len(field.choices) > 0 THEN UnionOf(field.choices)
     ELSE IF Len(field.options) > 0 THEN UnionOf(field.options)
     ELSE IF "uuid" \in field.special THEN <<Lit("string")>>
     ELSE IF "date-created" \in field.special \/ "date-updated" \in field.special
     THEN <<Lit("string")>>
     ELSE IF "user-created" \in field.special \/ "user-updated" \in field.special
     THEN <<Lit("string")>>
     ELSE IF "sort" \in field.special THEN <<Lit("number")>>
     ELSE <<Lit(RegularTsType(dt, mappings))>>

generateFieldType(field, mappings) ==
  <<Word(field.field)>>
  \o (IF ~isRequired(field) THEN <<Lit("?")>> ELSE <<>>)
  \o <<Lit(": ")>>
  \o getTypeScriptType(field, mappings)

(* TypeGenerator.generateType(collection) *)
generateType(collection, mappings) ==
  LET collectionName == toPascalCase(collection.collection)
      typeName == cDrs \o collectionName
      shown == SelectSeq(collection.fields,
                         LAMBDA f : ~f.hidden /\ ~isDividerField(f))
      fields == Join([i \in 1..Len(shown) |-> generateFieldType(shown[i], mappings)],
                     Lit(";"))
  IN <<Lit("export interface "), Word(typeName), Lit(" {")>>
     \o fields
     \o <<Lit(";"), Lit("}")>>

----------------------------------------------------------------------------
(* Zodirectus: dependency graph and cycle detection *)

NoText == <<>>

(* set.add(x) on a Set kept in insertion order *)
AddOrdered(s, x) == IF \E i \in 1..Len(s) : s[i] = x THEN s ELSE Append(s, x)

RECURSIVE AddAllOrdered(_, _)
AddAllOrdered(s, xs) ==
  IF xs = <<>> THEN s ELSE AddAllOrdered(AddOrdered(s, Head(xs)), Tail(xs))

isDerivedName(singularName) ==
  \/ endsWith(singularName, cCreate)
  \/ endsWith(singularName, cUpdate)
  \/ endsWith(singularName, cGet)

(* match.replace('Drx', '').replace('Schema', '') *)
schemaRefName(match) == removeFirst(removeFirst(match, cDrx), cSchema)

(* match.replace('Drs', '') *)
typeRefName(match) == removeFirst(match, cDrs)

(* the dependencies one result contributes to the graph *)
dependenciesOf(result) ==
  LET currentCollectionName == SingularName(result.collectionName)
      keep(n) == ~isDerivedName(n) /\ n # currentCollectionName
      inSchema == schemaMatches(result.schema)
      inType == typeMatches(result.type)
      fromSchema == SelectSeq([i \in 1..Len(inSchema) |-> schemaRefName(inSchema[i])],
                              keep)
      fromType == SelectSeq([i \in 1..Len(inType) |-> typeRefName(inType[i])], keep)
  IN AddAllOrdered(AddAllOrdered(<<>>, fromSchema), fromType)

(* graph.set(key, value) on a Map kept in insertion order *)
MapSet(graph, key, value) ==
  IF \E i \in 1..Len(graph) : graph[i].node = key
  THEN [i \in 1..Len(graph) |->
          IF graph[i].node = key THEN [node |-> key, deps |-> value] ELSE graph[i]]
  ELSE Append(graph, [node |-> key, deps |-> value])

(* graph.get(node) || new Set() *)
MapGet(graph, key) ==
  IF \E i \in 1..Len(graph) : graph[i].node = key
  THEN graph[CHOOSE i \in 1..Len(graph) : graph[i].node = key].deps
  ELSE <<>>

RECURSIVE GraphFrom(_, _, _)
GraphFrom(results, i, graph) ==
  IF i > Len(results) THEN graph
  ELSE GraphFrom(results, i + 1,
                 MapSet(graph, SingularName(results[i].collectionName),
                        dependenciesOf(results[i])))

buildDependencyGraph(results) == GraphFrom(results, 1, <<>>)

(* the depth-first search: st holds visited, recursionStack, circularDeps *)
RECURSIVE dfs(_, _, _, _)
RECURSIVE dfsNeighbors(_, _, _, _, _)

(* the loop that records the whole path instead of its part from cycleStart *)
dfsNeighborsWholePath(graph, path, neighbors, k, st) ==
  IF k > Len(neighbors) THEN st
  ELSE LET neighbor == neighbors[k]
       IN IF neighbor \notin st.visited
          THEN dfsNeighbors(graph, path, neighbors, k + 1, dfs(graph, neighbor, path, st))
          ELSE IF neighbor \in st.recursionStack
          THEN dfsNeighbors(graph, path, neighbors, k + 1,
                            [st EXCEPT !.circularDeps = Append(@, Append(path, neighbor))])
          ELSE dfsNeighbors(graph, path, neighbors, k + 1, st)

dfsNeighbors(graph, path, neighbors, k, st) ==
  IF k > Len(neighbors) THEN st
  ELSE LET neighbor == neighbors[k]
       IN IF neighbor \notin st.visited
          THEN dfsNeighbors(graph, path, neighbors, k + 1, dfs(graph, neighbor, path, st))
          ELSE IF neighbor \in st.recursionStack
          THEN LET cycleStart == indexOf(path, <<neighbor>>)
                   cycle == Append(SubSeq(path, cycleStart, Len(path)), neighbor)
               IN dfsNeighbors(graph, path, neighbors, k + 1,
                               [st EXCEPT !.circularDeps = Append(@, cycle)])
          ELSE dfsNeighbors(graph, path, neighbors, k + 1, st)

dfs(graph, node, path, st) ==
  LET entered == [st EXCEPT !.visited = @ \cup {node},
                            !.recursionStack = @ \cup {node}]
      after == dfsNeighbors(graph, Append(path, node), MapGet(graph, node), 1, entered)
  IN [after EXCEPT !.recursionStack = @ \ {node}]

RECURSIVE dfsRoots(_, _, _)
dfsRoots(graph, i, st) ==
  IF i > Len(graph) THEN st
  ELSE dfsRoots(graph, i + 1,
                IF graph[i].node \notin st.visited
                THEN dfs(graph, graph[i].node, <<>>, st) ELSE st)

detectCircularDependencies(graph) ==
  dfsRoots(graph, 1, [visited |-> {}, recursionStack |-> {},
                      circularDeps |-> <<>>]).circularDeps

cycleIncludes(cycle, name) == \E i \in 1..Len(cycle) : cycle[i] = name

isCircularDependency(collectionA, collectionB, circularDeps) ==
  \E c \in 1..Len(circularDeps) :
    cycleIncludes(circularDeps[c], collectionA) /\ cycleIncludes(circularDeps[c], collectionB)

(* circularDeps.some(cycle => cycle.includes(name)) *)
isPartOfCircularDependency(name, circularDeps) ==
  \E c \in 1..Len(circularDeps) : cycleIncludes(circularDeps[c], name)

----------------------------------------------------------------------------
(* Zodirectus.writeFiles: the content of one collection file *)

cFile == <<"F","i","l","e">>
cImageFile == <<"I","m","a","g","e","F","i","l","e">>
cDirectus == <<"D","i","r","e","c","t","u","s">>
cDirectusPrefix == <<"d","i","r","e","c","t","u","s","_">>
cDotTs == <<".","t","s">>
cFileSchemasPath == <<"f","i","l","e","-","s","c","h","e","m","a","s">> \o cDotTs

FirstIndex(text, from, tok) ==
  IF \E i \in from..Len(text) : text[i] = tok
  THEN CHOOSE i \in from..Len(text) :
         text[i] = tok /\ \A j \in from..(i - 1) : text[j] # tok
  ELSE 0

(* result.schema.match(/z\.object\(\{[\s\S]*?\}\)/): the text from the first
   "z.object({" to the first "})" after it, <<>> when there is no match *)
fieldDefinitions(schema) ==
  LET open == FirstIndex(schema, 1, Lit("z.object({"))
      close == IF open = 0 THEN 0 ELSE FirstIndex(schema, open + 1, Lit("})"))
  IN IF open = 0 \/ close = 0 THEN <<>> ELSE SubSeq(schema, open, close)

(* the Set relatedCollections of one result, in insertion order *)
relatedCollectionsOf(result) ==
  LET self == SingularName(result.collectionName)
      keepSchema(n) == n # self /\ n # cFile /\ n # cImageFile
      keepType(n) == ~isDerivedName(n) /\ n # cFile /\ n # cImageFile /\ n # self
      inFields == schemaMatches(fieldDefinitions(result.schema))
      fromSchema == SelectSeq([i \in 1..Len(inFields) |-> schemaRefName(inFields[i])],
                              keepSchema)
      inType == typeMatches(result.type)
      fromType == SelectSeq([i \in 1..Len(inType) |-> typeRefName(inType[i])], keepType)
  IN AddAllOrdered(AddAllOrdered(<<>>, fromSchema), fromType)

(* the predicate of results.find(...) in the import loop *)
isRelatedCollection(r, singularName) ==
  \/ SingularName(r.collectionName) = singularName
  \/ SingularName(removeFirst(r.collectionName, cDirectusPrefix)) = singularName

(* results.find(...): the index of the first match, 0 when undefined *)
findRelated(results, singularName) ==
  IF \E i \in 1..Len(results) : isRelatedCollection(results[i], singularName)
  THEN CHOOSE i \in 1..Len(results) :
         /\ isRelatedCollection(results[i], singularName)
         /\ \A j \in 1..(i - 1) : ~isRelatedCollection(results[j], singularName)
  ELSE 0

(* the file name (without '.ts') of a collection *)
fileNameOf(collectionName) == toKebabCase(SingularName(collectionName))

(* one import of the loop: <<>> when no related collection is found *)
importOf(singularName, results) ==
  LET k == findRelated(results, singularName)
      relatedCollection == results[k]
      isSystemCollection == startsWith(relatedCollection.collectionName, cDirectusPrefix)
      baseSingularName == removeFirst(singularName, cDirectus)
      schemaName == IF isSystemCollection
                    THEN cDrx \o cDirectus \o baseSingularName \o cSchema
                    ELSE cDrx \o baseSingularName \o cSchema
      typeName == IF isSystemCollection
                  THEN cDrs \o cDirectus \o baseSingularName
                  ELSE cDrs \o baseSingularName
  IN IF k = 0 THEN <<>>
     ELSE <<Lit("import { "), Word(schemaName), Lit(", type "), Word(typeName),
            Lit(" } from './"), Word(fileNameOf(relatedCollection.collectionName)),
            Lit("';")>>

(* the import statements of the related collections; an import whose key
   (schema name and file name) was already processed is not repeated *)
RECURSIVE importsFrom(_, _, _, _)
importsFrom(related, k, results, processed) ==
  IF k > Len(related) THEN <<>>
  ELSE LET imp == importOf(related[k], results)
       IN IF imp = <<>> \/ imp \in processed
          THEN importsFrom(related, k + 1, results, processed)
          ELSE imp \o importsFrom(related, k + 1, results, processed \cup {imp})

fileContentOf(result, results) ==
  (IF result.schema # NoText THEN <<Lit("import { z } from 'zod';")>> ELSE <<>>)
  \o (IF /\ result.schema # NoText
         /\ \/ HasWord(result.schema, cDrx \o cFile \o cSchema)
            \/ HasWord(result.schema, cDrx \o cImageFile \o cSchema)
      THEN <<Lit("import { DrxFileSchema, DrxImageFileSchema, type DrsFile, type DrsImageFile } from './file-schemas';")>>
      ELSE <<>>)
  \o importsFrom(relatedCollectionsOf(result), 1, results, {})
  \o result.schema
  \o result.type

filePathOf(result) == fileNameOf(result.collectionName) \o cDotTs

----------------------------------------------------------------------------
(* Inputs: collection names and fields a server may return *)

nUsers == <<"u","s","e","r","s">>
nUser == <<"u","s","e","r">>
nPosts == <<"p","o","s","t","s">>
nTags == <<"t","a","g","s">>
nUpdates == <<"u","p","d","a","t","e","s">>
nSettings == <<"s","e","t","t","i","n","g","s">>
nDirectusUsers == cDirectusPrefix \o nUsers
nDirectusFiles == cDirectusPrefix \o <<"f","i","l","e","s">>

PlainField(name, type) ==
  [field |-> name, type |-> type, data_type |-> type, is_nullable |-> "absent",
   foreign_key_table |-> <<>>, special |-> {}, interface |-> "",
   choices |-> <<>>, options |-> <<>>, hidden |-> FALSE, required |-> "absent"]

IdField ==
  [PlainField(cId, "uuid") EXCEPT !.is_nullable = "false", !.required = "true",
                                   !.special = {"uuid"}]

(* a many-to-one relation to collection target *)
M2OField(name, target) ==
  [PlainField(name, "uuid") EXCEPT !.foreign_key_table = target,
                                    !.special = {"m2o"},
                                    !.interface = "select-dropdown-m2o"]

RefNames == << <<"r","e","f","a">>, <<"r","e","f","b">>, <<"r","e","f","c">>,
               <<"r","e","f","d">> >>

(* the fields of a collection with relations to targets, in that order *)
FieldsFor(targets) ==
  <<IdField>> \o [k \in 1..Len(targets) |-> M2OField(RefNames[k], targets[k])]

NoMappings == [t \in {} |-> ""]

----------------------------------------------------------------------------
(* Bounds *)

MaxCollections == 3
MaxRelations == 2
MaxFailures == 1

Range(s) == {s[i] : i \in 1..Len(s)}

(* the sequences without repetition of at most n elements of S *)
RECURSIVE NoRepSeqs(_, _)
NoRepSeqs(S, n) ==
  IF n = 0 THEN {<<>>}
  ELSE LET shorter == NoRepSeqs(S, n - 1)
       IN shorter \cup UNION {{Append(s, x) : x \in S \ Range(s)} : s \in shorter}

----------------------------------------------------------------------------
(* State *)

VARIABLES
  config,             \* ZodirectusConfig after the constructor's defaults
  server,             \* what the Directus server holds: collections with fields
  pc,                 \* where generate() is
  actualCollections,  \* the collections generate() processes, in order
  idx,                \* the index of the running loop
  results,            \* GeneratedSchema[]
  circularDeps,       \* the cycles found before the regeneration
  skipped,            \* the collections logged as skipped
  written,            \* the fs.writeFileSync calls so far: path and content
  failures,           \* the failed requests so far
  error,              \* what the outer catch caught: "none", "connect", "fetch"
  unitIn,             \* the argument of a generator function applied alone
  unitOut             \* its result

vars == <<config, server, pc, actualCollections, idx, results, circularDeps,
          skipped, written, failures, error, unitIn, unitOut>>

pipelineVars == <<config, server, pc, actualCollections, idx, results,
                  circularDeps, skipped, written, failures, error>>

unitVars == <<unitIn, unitOut>>

NoCollection == [collection |-> <<>>, fields |-> <<>>]

(* op: "none" (no generator runs alone), "pending" (an argument is chosen),
   or the name of the function that was applied *)
Unit(op, collection) == [op |-> op, collection |-> collection]

NoUnit == Unit("none", NoCollection)

----------------------------------------------------------------------------
(* Initial states of generate(): a server and a configuration *)

GraphNames == <<nUsers, nPosts, nTags>>

NameUniverse == {nUsers, nUser, nPosts, nSettings, nDirectusUsers}

DefaultConfig ==
  [collectionsSet |-> FALSE, collections |-> {},
   includeSystemCollections |-> FALSE,
   generateSchemas |-> TRUE, generateTypes |-> TRUE,
   customFieldMappings |-> NoMappings]

(* three collections with every choice and order of relations among them (a
   relation of a collection to itself is among the named servers) *)
GraphServers ==
  {[k \in 1..Len(GraphNames) |->
      [collection |-> GraphNames[k], fields |-> FieldsFor(targets[k])]] :
     targets \in {ts \in [1..Len(GraphNames) ->
                            NoRepSeqs(Range(GraphNames), MaxRelations)] :
                    \A k \in 1..Len(GraphNames) : GraphNames[k] \notin Range(ts[k])}}

(* collections of any names, unrelated or each related to the next one (the
   last to the first) *)
NamedServer(names, ring) ==
  [k \in 1..Len(names) |->
     [collection |-> names[k],
      fields |-> FieldsFor(IF ring THEN <<names[(k % Len(names)) + 1]>> ELSE <<>>)]]

NamedServers ==
  {NamedServer(names, ring) :
     names \in NoRepSeqs(NameUniverse, MaxCollections), ring \in BOOLEAN}

(* a collection related to one whose singular name ends with Update *)
DerivedNameServers == {NamedServer(<<nUsers, nUpdates>>, ring) : ring \in BOOLEAN}

NamedConfigs ==
  {[DefaultConfig EXCEPT !.collectionsSet = cs[1], !.collections = cs[2],
                         !.includeSystemCollections = sys,
                         !.generateSchemas = gs, !.generateTypes = gt] :
     cs \in {<<FALSE, {}>>, <<TRUE, {nUsers}>>, <<TRUE, {nUsers, nDirectusUsers}>>},
     sys \in BOOLEAN, gs \in BOOLEAN, gt \in BOOLEAN}

InitPipeline(srv, cfg) ==
  /\ server = srv
  /\ config = cfg
  /\ pc = "start"
  /\ actualCollections = <<>>
  /\ idx = 1
  /\ results = <<>>
  /\ circularDeps = <<>>
  /\ skipped = {}
  /\ written = <<>>
  /\ failures = 0
  /\ error = "none"
  /\ unitIn = NoUnit
  /\ unitOut = NoText

Init ==
  \/ \E srv \in GraphServers : InitPipeline(srv, DefaultConfig)
  \/ \E srv \in NamedServers, cfg \in NamedConfigs : InitPipeline(srv, cfg)
  \/ \E srv \in DerivedNameServers, cfg \in NamedConfigs : InitPipeline(srv, cfg)

----------------------------------------------------------------------------
(* Zodirectus.generate() *)

cFolders ==
  { <<"D","i","a","l","o","g","u","e","s">>,
    <<"E","x","p","e","r","t","_","S","y","s","t","e","m">>,
    <<"M","o","d","e","l","s">>,
    nSettings }

(* client.getCollections() *)
getCollections == [k \in 1..Len(server) |-> server[k].collection]

targetCollections ==
  IF config.collectionsSet
  THEN SelectSeq(getCollections, LAMBDA c : c \in config.collections)
  ELSE getCollections

(* the selection without the filter on system collections *)
filteredCollectionsKeepSystem == targetCollections

filteredCollections ==
  IF config.includeSystemCollections
  THEN targetCollections
  ELSE SelectSeq(targetCollections, LAMBDA c : ~startsWith(c, cDirectusPrefix))

filterFolders(collections) == SelectSeq(collections, LAMBDA c : c \notin cFolders)

(* client.getCollectionWithFields(name), when the request succeeds *)
getCollectionWithFields(name) ==
  server[CHOOSE k \in 1..Len(server) : server[k].collection = name]

(* authenticate, setRelationships, getCollections and the filters *)
Begin ==
  /\ pc = "start"
  /\ \E ok \in BOOLEAN :
       IF ok
       THEN /\ actualCollections' = filterFolders(filteredCollections)
            /\ pc' = "fetch"
            /\ error' = error
       ELSE /\ pc' = "thrown"
            /\ error' = "connect"
            /\ actualCollections' = actualCollections
  /\ idx' = 1
  /\ UNCHANGED <<config, server, results, circularDeps, skipped, written, failures>>
  /\ UNCHANGED unitVars

(* the results after one collection was fetched and generated *)
pushGenerated(rs, collection, cfg) ==
  LET withSchema ==
        IF cfg.generateSchemas
        THEN Append(rs, [collectionName |-> collection.collection,
                         schema |-> generateSchema(collection, FALSE,
                                                   cfg.customFieldMappings),
                         type |-> NoText])
        ELSE rs
      type == generateType(collection, cfg.customFieldMappings)
      found == {i \in 1..Len(withSchema) :
                  withSchema[i].collectionName = collection.collection}
      first == CHOOSE i \in found : \A j \in found : i <= j
  IN IF ~cfg.generateTypes THEN withSchema
     ELSE IF found # {} THEN [withSchema EXCEPT ![first].type = type]
     ELSE Append(withSchema, [collectionName |-> collection.collection,
                              schema |-> NoText, type |-> type])

(* the turn that keeps an entry for the collection it logs as skipped *)
FetchKeepsSkipped ==
  /\ pc = "fetch"
  /\ idx <= Len(actualCollections)
  /\ \E ok \in BOOLEAN :
       /\ ~ok => failures < MaxFailures
       /\ results' = pushGenerated(results,
                       getCollectionWithFields(actualCollections[idx]), config)
       /\ IF ok
          THEN UNCHANGED <<skipped, failures>>
          ELSE /\ skipped' = skipped \cup {actualCollections[idx]}
               /\ failures' = failures + 1
  /\ idx' = idx + 1
  /\ UNCHANGED <<config, server, pc, actualCollections, circularDeps, written, error>>
  /\ UNCHANGED unitVars

(* one turn of the first loop: fetch the fields; generate, or log and skip *)
Fetch ==
  /\ pc = "fetch"
  /\ idx <= Len(actualCollections)
  /\ \E ok \in BOOLEAN :
       /\ ~ok => failures < MaxFailures
       /\ IF ok
          THEN /\ results' = pushGenerated(results,
                               getCollectionWithFields(actualCollections[idx]), config)
               /\ UNCHANGED <<skipped, failures>>
          ELSE /\ skipped' = skipped \cup {actualCollections[idx]}
               /\ failures' = failures + 1
               /\ results' = results
  /\ idx' = idx + 1
  /\ UNCHANGED <<config, server, pc, actualCollections, circularDeps, written, error>>
  /\ UNCHANGED unitVars

(* after the loop: build the graph and detect the cycles *)
Detect ==
  /\ pc = "fetch"
  /\ idx > Len(actualCollections)
  /\ circularDeps' = detectCircularDependencies(buildDependencyGraph(results))
  /\ pc' = "regen"
  /\ idx' = 1
  /\ UNCHANGED <<config, server, actualCollections, results, skipped, written,
                 failures, error>>
  /\ UNCHANGED unitVars

(* the condition that regenerates every result that has a schema *)
needsRegenerationAll(result) == result.schema # NoText

needsRegeneration(result) ==
  /\ result.schema # NoText
  /\ isPartOfCircularDependency(SingularName(result.collectionName), circularDeps)
  /\ \E k \in 1..Len(actualCollections) : actualCollections[k] = result.collectionName

(* one turn of the regeneration loop for a result outside every cycle *)
RegenSkip ==
  /\ pc = "regen"
  /\ idx <= Len(results)
  /\ ~needsRegeneration(results[idx])
  /\ idx' = idx + 1
  /\ UNCHANGED <<config, server, pc, actualCollections, results, circularDeps,
                 skipped, written, failures, error>>
  /\ UNCHANGED unitVars

(* one turn of the regeneration loop for a result on a cycle: the fields are
   fetched again, outside the inner try *)
RegenFetch ==
  /\ pc = "regen"
  /\ idx <= Len(results)
  /\ needsRegeneration(results[idx])
  /\ \E ok \in BOOLEAN :
       /\ ~ok => failures < MaxFailures
       /\ IF ok
          THEN /\ results' = [results EXCEPT ![idx].schema =
                                generateSchema(getCollectionWithFields(
                                                 results[idx].collectionName),
                                               TRUE, config.customFieldMappings)]
               /\ idx' = idx + 1
               /\ UNCHANGED <<pc, failures, error>>
          ELSE /\ pc' = "thrown"
               /\ error' = "fetch"
               /\ failures' = failures + 1
               /\ UNCHANGED <<results, idx>>
  /\ UNCHANGED <<config, server, actualCollections, circularDeps, skipped, written>>
  /\ UNCHANGED unitVars

fileSchemasContent == <<Lit("Directus file object schema (generated from actual Directus structure)")>>
fallbackContent == <<Lit("Directus file object schema (fallback)")>>

(* writeFileSchemas without its catch: a failed fetch of the fields of
   directus_files reaches the catch of generate() and nothing is written *)
WriteFileSchemasThrows ==
  /\ pc = "regen"
  /\ idx > Len(results)
  /\ \E ok \in BOOLEAN :
       /\ ~ok => failures < MaxFailures
       /\ IF ok
          THEN /\ written' = Append(written, [path |-> cFileSchemasPath,
                                              content |-> fileSchemasContent])
               /\ pc' = "write"
               /\ UNCHANGED <<failures, error>>
          ELSE /\ pc' = "thrown"
               /\ error' = "fetch"
               /\ failures' = failures + 1
               /\ written' = written
  /\ idx' = 1
  /\ UNCHANGED <<config, server, actualCollections, results, circularDeps, skipped>>
  /\ UNCHANGED unitVars

(* writeFiles begins: writeFileSchemas fetches the fields of directus_files
   and writes file-schemas.ts, generated or fallback *)
WriteFileSchemas ==
  /\ pc = "regen"
  /\ idx > Len(results)
  /\ \E ok \in BOOLEAN :
       /\ ~ok => failures < MaxFailures
       /\ written' = Append(written,
                            [path |-> cFileSchemasPath,
                             content |-> IF ok THEN fileSchemasContent
                                         ELSE fallbackContent])
       /\ failures' = IF ok THEN failures ELSE failures + 1
  /\ pc' = "write"
  /\ idx' = 1
  /\ UNCHANGED <<config, server, actualCollections, results, circularDeps, skipped,
                 error>>
  /\ UNCHANGED unitVars

(* one turn of the loop of writeFiles *)
WriteFile ==
  /\ pc = "write"
  /\ idx <= Len(results)
  /\ written' = Append(written, [path |-> filePathOf(results[idx]),
                                 content |-> fileContentOf(results[idx], results)])
  /\ idx' = idx + 1
  /\ UNCHANGED <<config, server, pc, actualCollections, results, circularDeps,
                 skipped, failures, error>>
  /\ UNCHANGED unitVars

(* return results *)
Return ==
  /\ pc = "write"
  /\ idx > Len(results)
  /\ pc' = "returned"
  /\ UNCHANGED <<config, server, actualCollections, idx, results, circularDeps,
                 skipped, written, failures, error>>
  /\ UNCHANGED unitVars

Next ==
  \/ Begin
  \/ Fetch
  \/ Detect
  \/ RegenSkip
  \/ RegenFetch
  \/ WriteFileSchemas
  \/ WriteFile
  \/ Return

Spec == Init /\ [][Next]_vars

----------------------------------------------------------------------------
(* The generators applied alone to one field *)

MaxFields == 3

cTitle == <<"t","i","t","l","e">>
cUpdates == <<"u","p","d","a","t","e","s">>
cRuntime == <<"r","u","n","t","i","m","e">>
cSecret == <<"s","e","c","r","e","t">>
cDividerA == <<"d","i","v","i","d","e","r","-","a">>
cUserCreated == cSystemFields[1]
cDateCreated == cSystemFields[2]

Tri == {"true", "false", "absent"}

FieldNames == {cTitle, cUpdates, cRuntime, cDate, cTs}

DataTypes == {"uuid", "varchar", "text", "integer", "bigint", "decimal", "float",
              "boolean", "date", "datetime", "json", "custom_type"}

SomeMappings == [t \in {"custom_type"} |-> "z.customValidator()"]

(* a mapping whose key is a type the generators already know *)
BuiltinMappings == [t \in {"varchar"} |-> "z.string().min(5)"]

(* fields with a name and a data type and nothing else *)
PlainFields ==
  {[PlainField(name, type) EXCEPT !.data_type = IF hasSchema THEN type ELSE "",
                                  !.required = req,
                                  !.is_nullable = nul, !.hidden = hid] :
     name \in FieldNames, type \in DataTypes, hasSchema \in BOOLEAN,
     req \in Tri, nul \in Tri, hid \in BOOLEAN}

(* fields with special flags, an interface, choices or options *)
DecoratedFields ==
  {[PlainField(cTitle, type) EXCEPT !.special = sp, !.interface = iface,
                                    !.choices = ch[1], !.options = ch[2],
                                    !.foreign_key_table = fk] :
     type \in {"varchar", "integer", "boolean"},
     sp \in {{}, {"uuid"}, {"m2o"}, {"o2m"}, {"file"}, {"files"}, {"sort"},
             {"date-created"}, {"user-updated"}, {"cast-json"}},
     iface \in {"", "select-radio", "select-multiple-dropdown",
                "select-multiple-checkbox-tree", "datetime", "autocomplete",
                "tags", "file-image", "list-o2m"},
     ch \in {<< <<>>, <<>> >>, << <<"a", "b", "a">>, <<>> >>, << <<>>, <<"1", "true">> >>},
     fk \in {<<>>, nPosts}}

FieldUniverse == PlainFields \cup DecoratedFields

InitIdle ==
  /\ server = <<>>
  /\ pc = "idle"
  /\ actualCollections = <<>>
  /\ idx = 1
  /\ results = <<>>
  /\ circularDeps = <<>>
  /\ skipped = {}
  /\ written = <<>>
  /\ failures = 0
  /\ error = "none"
  /\ unitOut = NoText

InitField ==
  /\ InitIdle
  /\ config \in {[DefaultConfig EXCEPT !.customFieldMappings = mappings] :
                    mappings \in {NoMappings, SomeMappings, BuiltinMappings}}
  /\ \E f \in FieldUniverse :
       unitIn = Unit("pending", [collection |-> nUsers, fields |-> <<f>>])

theField == unitIn.collection.fields[1]

ApplyGetZodType ==
  /\ unitIn.op = "pending"
  /\ unitOut' = getZodType(theField, config.customFieldMappings)
  /\ unitIn' = [unitIn EXCEPT !.op = "getZodType"]
  /\ UNCHANGED pipelineVars

ApplyGenerateFieldSchema ==
  /\ unitIn.op = "pending"
  /\ unitOut' = generateFieldSchema(theField, config.customFieldMappings)
  /\ unitIn' = [unitIn EXCEPT !.op = "generateFieldSchema"]
  /\ UNCHANGED pipelineVars

NextField == ApplyGetZodType \/ ApplyGenerateFieldSchema

SpecField == InitField /\ [][NextField]_vars

----------------------------------------------------------------------------
(* The generators applied alone to one collection *)

HiddenField(name, type) == [PlainField(name, type) EXCEPT !.hidden = TRUE]

SchemaFields ==
  { IdField,
    HiddenField(cId, "integer"),
    PlainField(cTitle, "varchar"),
    HiddenField(cSecret, "varchar"),
    PlainField(cDividerA, "alias"),
    [HiddenField(cUserCreated, "uuid") EXCEPT !.special = {"user-created"}],
    [PlainField(cDateCreated, "timestamp") EXCEPT !.special = {"date-created"}] }

(* the fields of one collection have different names *)
UniqueNames(fields) ==
  \A i, j \in 1..Len(fields) : fields[i].field = fields[j].field => i = j

InitSchema ==
  /\ InitIdle
  /\ config = DefaultConfig
  /\ \E fields \in NoRepSeqs(SchemaFields, MaxFields),
        name \in {nUsers, nSettings, nDirectusUsers} :
       /\ UniqueNames(fields)
       /\ unitIn = Unit("pending", [collection |-> name, fields |-> fields])

ApplyGenerateSchema ==
  /\ unitIn.op = "pending"
  /\ \E lazy \in BOOLEAN :
       /\ unitOut' = generateSchema(unitIn.collection, lazy, config.customFieldMappings)
       /\ unitIn' = [unitIn EXCEPT !.op = IF lazy THEN "generateSchema(lazy)"
                                           ELSE "generateSchema"]
  /\ UNCHANGED pipelineVars

ApplyGenerateType ==
  /\ unitIn.op = "pending"
  /\ unitOut' = generateType(unitIn.collection, config.customFieldMappings)
  /\ unitIn' = [unitIn EXCEPT !.op = "generateType"]
  /\ UNCHANGED pipelineVars

NextSchema == ApplyGenerateSchema \/ ApplyGenerateType

SpecSchema == InitSchema /\ [][NextSchema]_vars

----------------------------------------------------------------------------
(* Properties of generate() *)

returned == pc = "returned"

ServerNames == Range(getCollections)

ResultNames == {results[k].collectionName : k \in 1..Len(results)}

isSystemName(name) == startsWith(name, cDirectusPrefix)

(* the nodes reached from the nodes of S by the edges of the graph *)
RECURSIVE ReachableFrom(_, _)
ReachableFrom(graph, S) ==
  LET next == S \cup UNION {Range(MapGet(graph, n)) : n \in S}
  IN IF next = S THEN S ELSE ReachableFrom(graph, next)

(* node n lies on a directed cycle of the graph *)
OnCycle(graph, n) == n \in ReachableFrom(graph, Range(MapGet(graph, n)))

IsLazy(schema) ==
  /\ Len(schema) >= 3
  /\ schema[3] = Lit(": z.ZodType<any> = z.lazy(() => ")

(* C1: after generate() has returned, every result whose singular name lies
   on a directed cycle of buildDependencyGraph(results) has its schema in
   the lazy form *)
C1_CycleMembersAreLazy ==
  returned =>
    LET graph == buildDependencyGraph(results)
    IN \A k \in 1..Len(results) :
         (/\ results[k].schema # NoText
          /\ OnCycle(graph, SingularName(results[k].collectionName)))
         => IsLazy(results[k].schema)

CollectionFiles == {written[w] : w \in 2..Len(written)}

(* C2: one file per collection: two results with different collection names
   are written to different paths, so that generate() leaves as many
   collection files as it returns results *)
C2_OneFilePerCollection ==
  returned =>
    /\ \A i, j \in 1..Len(results) :
         results[i].collectionName # results[j].collectionName
         => filePathOf(results[i]) # filePathOf(results[j])
    /\ Cardinality({f.path : f \in CollectionFiles}) = Len(results)

(* C3: a failure to fetch the fields of a collection, wherever in generate()
   it happens, is logged and skipped: generate() never throws because of it *)
C3_FetchFailureNeverThrows == pc = "thrown" => error # "fetch"

(* the identifiers a file declares with export const *)
DefinedIn(content) ==
  {content[p + 1].word : p \in {q \in 1..(Len(content) - 1) :
                                  content[q] = Lit("export const ")}}

(* the schema imports of a file: identifier and module *)
ImportsOf(content) ==
  {[name |-> content[p + 1].word, type |-> content[p + 3].word,
    module |-> content[p + 5].word] :
     p \in {q \in 1..(Len(content) - 5) : content[q] = Lit("import { ")}}
  \cup (IF \E q \in 1..Len(content) : /\ ~IsWord(content[q])
                                      /\ content[q] = fileContentOf(
                                           [collectionName |-> <<>>,
                                            schema |-> <<Word(cDrx \o cFile \o cSchema)>>,
                                            type |-> NoText], <<>>)[2]
        THEN {[name |-> cDrx \o f \o cSchema, type |-> cDrs \o f,
               module |-> SubSeq(cFileSchemasPath, 1,
                                 Len(cFileSchemasPath) - Len(cDotTs))] :
                f \in {cFile, cImageFile}}
        ELSE {})

WrittenPaths == {written[w].path : w \in 1..Len(written)}

(* C4: in every collection file, each Drx...Schema identifier that the body
   of the schema references and the file does not define is imported under
   exactly that identifier from a module whose file this run wrote *)
C4_ReferencesAreImported ==
  returned =>
    \A k \in 1..Len(results) :
      LET content == written[k + 1].content
          refs == Range(schemaMatches(fieldDefinitions(results[k].schema)))
      IN \A ref \in refs \ DefinedIn(content) :
           \E imp \in ImportsOf(content) :
             /\ imp.name = ref
             /\ (imp.module \o cDotTs) \in WrittenPaths

(* C5: every result is for a collection that the server returned, that is
   listed in config.collections when the list is set, and whose name starts
   with directus_ only when includeSystemCollections is true *)
C5_ResultsAreSelected ==
  \A k \in 1..Len(results) :
    LET name == results[k].collectionName
    IN /\ name \in ServerNames
       /\ config.collectionsSet => name \in config.collections
       /\ isSystemName(name) => config.includeSystemCollections

(* a run that returned results while the list and the system filter each
   kept a collection of the server out *)
C5_Witness ==
  /\ returned
  /\ results # <<>>
  /\ config.collectionsSet
  /\ ~config.includeSystemCollections
  /\ \E c \in ServerNames : c \in config.collections /\ isSystemName(c)
  /\ \E c \in ServerNames : c \notin config.collections

(* C6: with config.collections unset there is a result for every collection
   of the server whose fields could be fetched (the non-system ones when
   includeSystemCollections is false); with the list set there is a result
   for every listed non-system collection of the server *)
C6_EverySelectedCollectionHasResult ==
  (returned /\ (config.generateSchemas \/ config.generateTypes)) =>
    \A c \in ServerNames \ skipped :
      IF config.collectionsSet
      THEN (c \in config.collections /\ ~isSystemName(c)) => c \in ResultNames
      ELSE (config.includeSystemCollections \/ ~isSystemName(c)) => c \in ResultNames

----------------------------------------------------------------------------
(* Properties of the generated names *)

(* the schema imports of every collection file written so far *)
AllImports == UNION {ImportsOf(f.content) : f \in CollectionFiles}

(* C7: the base type of a collection is Drs<X> and its base schema is
   Drx<X>Schema for the same X, the singularised PascalCase collection name,
   and the imports bring in both under that X *)
C7_TypeAndSchemaShareName ==
  /\ \A k \in 1..Len(results) :
       LET X == SingularName(results[k].collectionName)
       IN /\ results[k].schema # NoText
             => results[k].schema[2] = Word(cDrx \o X \o cSchema)
          /\ results[k].type # NoText
             => results[k].type[2] = Word(cDrs \o X)
  /\ \A imp \in AllImports :
       \E k \in 1..Len(results) :
         LET X == SingularName(results[k].collectionName)
         IN /\ imp.module = fileNameOf(results[k].collectionName)
            /\ imp.name = cDrx \o X \o cSchema
            /\ imp.type = cDrs \o X

----------------------------------------------------------------------------
(* Properties of the field generators *)

(* the Zod schema column of the table of field type mappings *)
ReadmeZodType(dt) ==
  IF dt = "uuid" THEN "z.string().uuid()"
  ELSE IF dt \in {"varchar", "text"} THEN "z.string()"
  ELSE IF dt \in {"integer", "bigint"} THEN "z.number().int()"
  ELSE IF dt \in {"decimal", "float"} THEN "z.number()"
  ELSE IF dt = "boolean" THEN "z.boolean()"
  ELSE IF dt = "date" THEN "z.string().date()"
  ELSE IF dt = "datetime" THEN "z.string().datetime()"
  ELSE "z.any()"

ReadmeTypes == {"uuid", "varchar", "text", "integer", "bigint", "decimal", "float",
                "boolean", "date", "datetime", "json"}

isBareField(field) ==
  /\ field.special = {}
  /\ field.interface = ""
  /\ field.choices = <<>>
  /\ field.options = <<>>

(* C8: the Zod type of a field with no special flags, no interface and no
   choices or options is the one the table of field type mappings lists for
   its data type, whatever the name of the field *)
C8_TypeFromDataTypeAlone ==
  (/\ unitIn.op = "getZodType"
   /\ isBareField(theField)
   /\ directusType(theField) \in ReadmeTypes)
  => unitOut = <<Lit(ReadmeZodType(directusType(theField)))>>

(* C9: generateFieldSchema ends the entry with .optional() exactly when the
   field is not required (required defaults to false) and puts .nullable()
   right before it exactly when the field is not required and is_nullable
   (which defaults to true) is not false; a required field gets neither *)
C9_OptionalAndNullable ==
  unitIn.op = "generateFieldSchema" =>
    LET n == Len(unitOut)
        optional == unitOut[n] = Lit(".optional()")
        nullable == n > 1 /\ unitOut[n - 1] = Lit(".nullable()") /\ optional
    IN /\ optional <=> theField.required # "true"
       /\ nullable <=> (theField.required # "true" /\ theField.is_nullable # "false")
       /\ HasLit(unitOut, ".nullable()") => nullable
       /\ HasLit(unitOut, ".optional()") => optional

(* a required field whose column is nullable went through generateFieldSchema *)
C9_Witness ==
  /\ unitIn.op = "generateFieldSchema"
  /\ theField.required = "true"
  /\ theField.is_nullable = "true"
  /\ unitOut # NoText

(* the names of the entries of the base object of a schema *)
EntryNames(schema) ==
  LET defs == fieldDefinitions(schema)
  IN {defs[p].word : p \in {q \in 1..(Len(defs) - 1) :
                              IsWord(defs[q]) /\ defs[q + 1] = Lit(": ")}}

(* C10: generateSchema emits no entry for a hidden field, and emits one for
   every field that is neither hidden nor a divider *)
C10_HiddenFieldsNotEmitted ==
  unitIn.op \in {"generateSchema", "generateSchema(lazy)"} =>
    \A i \in 1..Len(unitIn.collection.fields) :
      LET f == unitIn.collection.fields[i]
      IN /\ f.hidden => f.field \notin EntryNames(unitOut)
         /\ (~f.hidden /\ ~isDividerField(f)) => f.field \in EntryNames(unitOut)

----------------------------------------------------------------------------
(* Properties of generateSchema *)

generatedSchema == unitIn.op \in {"generateSchema", "generateSchema(lazy)"}

(* C11 as stated: generateSchema declares the schema of collection c as
   export const <PascalCase(c)>Schema = z.object({ *)
C11_PascalCaseSchemaName ==
  unitIn.op = "generateSchema" =>
    SubSeq(unitOut, 1, 4)
      = <<Lit("export const "),
          Word(toPascalCase(unitIn.collection.collection) \o cSchema),
          Lit(" = "), Lit("z.object({")>>

(* C11 amended: generateSchema declares the schema of collection c as
   export const Drx<X>Schema with X the singular of PascalCase(c), followed
   by = z.object({ in the plain form and by the z.lazy wrapper around
   z.object({ in the lazy form *)
C11_DrxSingularSchemaName ==
  generatedSchema =>
    LET X == toSingular(toPascalCase(unitIn.collection.collection))
    IN SubSeq(unitOut, 1, 4)
         = <<Lit("export const "), Word(cDrx \o X \o cSchema),
             Lit(IF unitIn.op = "generateSchema" THEN " = "
                 ELSE ": z.ZodType<any> = z.lazy(() => "),
             Lit("z.object({")>>

(* the schema of directus_users was generated in the plain form *)
C11_Witness ==
  /\ unitIn.op = "generateSchema"
  /\ unitIn.collection.collection = nDirectusUsers
  /\ HasWord(unitOut, cDrx \o cDirectus \o toPascalCase(nUser) \o cSchema)
  /\ ~HasWord(unitOut, cDrx \o cDirectus \o toPascalCase(nUsers))

theFields == unitIn.collection.fields

(* the positions of the entries named name in the base object of a schema *)
EntryPositions(schema, name) ==
  LET defs == fieldDefinitions(schema)
  IN {p \in 1..(Len(defs) - 1) : defs[p] = Word(name) /\ defs[p + 1] = Lit(": ")}

ownIdFields == {i \in 1..Len(theFields) :
                  theFields[i].field = cId /\ ~isDividerField(theFields[i])}

(* C12: the base schema, lazy or not, has exactly one id entry: the entry of
   the collection's own non-divider field id when there is one, otherwise
   id: z.string().uuid().optional() as the first entry *)
C12_ExactlyOneIdEntry ==
  generatedSchema =>
    LET defs == fieldDefinitions(unitOut)
        at == EntryPositions(unitOut, cId)
    IN /\ Cardinality(at) = 1
       /\ \A p \in at :
            IF ownIdFields # {}
            THEN \E i \in ownIdFields :
                   LET entry == generateFieldSchema(theFields[i],
                                                    config.customFieldMappings)
                   IN SubSeq(defs, p, p + Len(entry) - 1) = entry
            ELSE /\ p = 2
                 /\ SubSeq(defs, 2, 5) = <<Word(cId), Lit(": "),
                                            Lit("z.string().uuid()"),
                                            Lit(".optional()")>>

(* a lazy schema was generated for a collection that has fields but no id *)
C12_Witness ==
  /\ unitIn.op = "generateSchema(lazy)"
  /\ theFields # <<>>
  /\ ownIdFields = {}
  /\ EntryPositions(unitOut, cId) = {2}


(* the keys of the object literal passed to omit() by the Create schema *)
OmitKeys(schema) ==
  LET opens == {q \in 1..Len(schema) :
                  schema[q] \in {Lit(".omit({"), Lit(" as z.ZodObject<any>).omit({")}}
      open == CHOOSE q \in opens : \A r \in opens : q <= r
      close == FirstIndex(schema, open + 1, Lit("})"))
  IN IF opens = {} THEN {}
     ELSE {schema[p].word : p \in {q \in (open + 1)..(close - 1) : IsWord(schema[q])}}

(* C13: the Create schema, lazy or not, omits id and exactly those of
   user_created, date_created, user_updated, date_updated that are
   (non-divider) fields of the collection, and every omitted key is a key of
   the base schema *)
C13_CreateOmitsIdAndSystemFields ==
  generatedSchema =>
    /\ OmitKeys(unitOut)
         = {cId} \cup {s \in Range(cSystemFields) :
                         \E i \in 1..Len(theFields) :
                           theFields[i].field = s /\ ~isDividerField(theFields[i])}
    /\ OmitKeys(unitOut) \subseteq EntryNames(unitOut)

(* a lazy schema for a collection with two system fields, another field and
   no id: three keys are omitted and the other field is kept *)
C13_Witness ==
  /\ unitIn.op = "generateSchema(lazy)"
  /\ OmitKeys(unitOut) = {cId, cUserCreated, cDateCreated}
  /\ cTitle \in EntryNames(unitOut)


----------------------------------------------------------------------------
(* Properties of the custom field mappings *)

(* C14: a field whose data type is a key of config.customFieldMappings and
   that has no special flag, no interface and no choices or options gets the
   configured mapping string as its Zod type *)
C14_CustomMappingIsEmitted ==
  (/\ unitIn.op = "getZodType"
   /\ isBareField(theField)
   /\ directusType(theField) \in DOMAIN config.customFieldMappings)
  => unitOut = <<Lit(config.customFieldMappings[directusType(theField)])>>


----------------------------------------------------------------------------
(* StringUtils of the shared library *)

irregularPlurals ==
  << <<<<"c","h","i","l","d","r","e","n">>, <<"c","h","i","l","d">>>>,
     <<<<"p","e","o","p","l","e">>, <<"p","e","r","s","o","n">>>>,
     <<<<"m","e","n">>, <<"m","a","n">>>>,
     <<<<"w","o","m","e","n">>, <<"w","o","m","a","n">>>>,
     <<<<"f","e","e","t">>, <<"f","o","o","t">>>>,
     <<<<"t","e","e","t","h">>, <<"t","o","o","t","h">>>>,
     <<<<"m","i","c","e">>, <<"m","o","u","s","e">>>>,
     <<<<"g","e","e","s","e">>, <<"g","o","o","s","e">>>>,
     <<<<"o","x","e","n">>, <<"o","x">>>>,
     <<<<"d","a","t","a">>, <<"d","a","t","u","m">>>>,
     <<<<"m","e","d","i","a">>, <<"m","e","d","i","u","m">>>>,
     <<<<"c","r","i","t","e","r","i","a">>, <<"c","r","i","t","e","r","i","o","n">>>>,
     <<<<"p","h","e","n","o","m","e","n","a">>, <<"p","h","e","n","o","m","e","n","o","n">>>>,
     <<<<"i","n","d","i","c","e","s">>, <<"i","n","d","e","x">>>>,
     <<<<"v","e","r","t","i","c","e","s">>, <<"v","e","r","t","e","x">>>>,
     <<<<"m","a","t","r","i","c","e","s">>, <<"m","a","t","r","i","x">>>>,
     <<<<"a","n","a","l","y","s","e","s">>, <<"a","n","a","l","y","s","i","s">>>>,
     <<<<"b","a","s","e","s">>, <<"b","a","s","e">>>>,
     <<<<"d","i","a","g","n","o","s","e","s">>, <<"d","i","a","g","n","o","s","i","s">>>>,
     <<<<"t","h","e","s","e","s">>, <<"t","h","e","s","i","s">>>>,
     <<<<"c","r","i","s","e","s">>, <<"c","r","i","s","i","s">>>>,
     <<<<"o","a","s","e","s">>, <<"o","a","s","i","s">>>> >>

fEndings == { <<"l","e","a","f">>,
             <<"w","o","l","f">>,
             <<"s","h","e","l","f">>,
             <<"c","a","l","f">>,
             <<"h","a","l","f">>,
             <<"s","e","l","f">>,
             <<"k","n","i","f","e">>,
             <<"l","i","f","e">>,
             <<"w","i","f","e">> }

singularEndsWithS == { <<"g","l","a","s">>, <<"c","l","a","s">>, <<"m","a","s">>, <<"p","a","s">>, <<"g","r","a","s">>, <<"g","a">>, <<"b","u">> }

(* the last n characters: s.slice(-n) *)
sliceLast(s, n) == IF Len(s) <= n THEN s ELSE SubSeq(s, Len(s) - n + 1, Len(s))

capitalizeFirst(singular, original) ==
  IF original = StrUpper(original) THEN StrUpper(singular)
  ELSE IF original[1] = toUpperCase(original[1])
  THEN IF singular = <<>> THEN <<>>
       ELSE <<toUpperCase(singular[1])>> \o Tail(singular)
  ELSE singular

StringUtils_toSingular(word) ==
  LET lowerWord == StrLower(word)
      irregular == {k \in 1..Len(irregularPlurals) : irregularPlurals[k][1] = lowerWord}
      withoutVes == sliceEnd(lowerWord, 3)
      withoutEs == sliceEnd(lowerWord, 2)
      lastChar == sliceLast(withoutEs, 1)
      withoutS == sliceEnd(lowerWord, 1)
      s == <<"s">>
  IN IF Len(word) <= 1 THEN word
     ELSE IF irregular # {}
     THEN capitalizeFirst(irregularPlurals[CHOOSE k \in irregular : TRUE][2], word)
     ELSE IF endsWith(lowerWord, <<"i","e","s">>) /\ Len(lowerWord) > 4
     THEN capitalizeFirst(sliceEnd(lowerWord, 3) \o <<"y">>, word)
     ELSE IF /\ endsWith(lowerWord, <<"v","e","s">>) /\ Len(lowerWord) > 4
             /\ (withoutVes \o <<"f">>) \in fEndings
     THEN capitalizeFirst(withoutVes \o <<"f">>, word)
     ELSE IF /\ endsWith(lowerWord, <<"v","e","s">>) /\ Len(lowerWord) > 4
             /\ withoutVes \in {<<"l","e","a","f">>, <<"w","o","l","f">>,
                                <<"s","h","e","l","f">>, <<"c","a","l","f">>,
                                <<"h","a","l","f">>, <<"s","e","l","f">>}
     THEN capitalizeFirst(withoutVes, word)
     ELSE IF /\ endsWith(lowerWord, <<"e","s">>)
             /\ ~endsWith(lowerWord, <<"i","e","s">>)
             /\ ~endsWith(lowerWord, <<"v","e","s">>)
             /\ Len(lowerWord) > 3
             /\ \/ lastChar \in {<<"s">>, <<"x">>, <<"z">>}
                \/ endsWith(withoutEs, <<"s","s">>)
                \/ endsWith(withoutEs, <<"c","h">>)
                \/ endsWith(withoutEs, <<"s","h">>)
     THEN capitalizeFirst(withoutEs, word)
     ELSE IF endsWith(lowerWord, s) /\ Len(lowerWord) > 2
     THEN IF \E ending \in singularEndsWithS : endsWith(withoutS, ending)
          THEN word
          ELSE capitalizeFirst(withoutS, word)
     ELSE word

----------------------------------------------------------------------------
(* The two toSingular applied alone to one PascalCase collection name *)

MaxWordLen == 3

WordLetters == {"s", "e", "i", "u", "b", "x"}

RECURSIVE WordsUpTo(_)
WordsUpTo(n) ==
  IF n = 0 THEN {<<>>}
  ELSE LET shorter == WordsUpTo(n - 1)
       IN shorter \cup {Append(w, c) : w \in shorter, c \in WordLetters}

CollectionNames ==
  { <<"u","s","e","r","s">>,
    <<"b","l","o","g","_","p","o","s","t","s">>,
    <<"c","a","t","e","g","o","r","i","e","s">>,
    <<"c","h","i","l","d","r","e","n">>,
    <<"b","o","x","e","s">>,
    <<"c","l","a","s","s","e","s">>,
    <<"b","u","s">>,
    <<"g","l","a","s","s">>,
    <<"s","t","a","t","u","s">>,
    <<"t","i","e","s">>,
    <<"l","e","a","v","e","s">>,
    <<"k","n","i","v","e","s">>,
    <<"d","a","t","a">>,
    <<"m","e","d","i","a">>,
    <<"a","n","a","l","y","s","e","s">>,
    <<"n","e","w","s">>,
    <<"s","e","r","i","e","s">>,
    <<"a","u","d","i","t","_","a","c","t","i","v","i","t","y","_","l","o","g","s">>,
    <<"d","i","r","e","c","t","u","s","_","u","s","e","r","s">>,
    <<"p","e","o","p","l","e">>,
    <<"a","d","d","r","e","s","s","e","s">>,
    <<"u","s","e","r">>,
    <<"x">> }

PascalNames == {toPascalCase(c) : c \in CollectionNames \cup (WordsUpTo(MaxWordLen) \ {<<>>})}

InitName ==
  /\ InitIdle
  /\ config = DefaultConfig
  /\ \E name \in PascalNames :
       unitIn = Unit("pending", [collection |-> name, fields |-> <<>>])

theName == unitIn.collection.collection

ApplyToSingular ==
  /\ unitIn.op = "pending"
  /\ unitOut' = <<Word(toSingular(theName))>>
  /\ unitIn' = [unitIn EXCEPT !.op = "toSingular"]
  /\ UNCHANGED pipelineVars

ApplyStringUtilsToSingular ==
  /\ unitIn.op = "pending"
  /\ unitOut' = <<Word(StringUtils_toSingular(theName))>>
  /\ unitIn' = [unitIn EXCEPT !.op = "StringUtils.toSingular"]
  /\ UNCHANGED pipelineVars

NextName == ApplyToSingular \/ ApplyStringUtilsToSingular

SpecName == InitName /\ [][NextName]_vars

(* C15: for every PascalCase collection name StringUtils.toSingular returns
   what the private toSingular of Zodirectus and ZodGenerator returns *)
C15_SharedToSingularAgrees ==
  unitIn.op = "StringUtils.toSingular" => unitOut = <<Word(toSingular(theName))>>


----------------------------------------------------------------------------
(* Properties of the dependency graph and of the cycle detection *)

IsRealCycle(graph, cycle) ==
  /\ Len(cycle) >= 2
  /\ cycle[1] = cycle[Len(cycle)]
  /\ \A k \in 1..(Len(cycle) - 1) : cycle[k + 1] \in Range(MapGet(graph, cycle[k]))
  /\ \A i, j \in 1..Len(cycle) :
       (i < j /\ cycle[i] = cycle[j]) => (i = 1 /\ j = Len(cycle))

(* C16: every cycle returned by detectCircularDependencies is a cycle of the
   graph it was given: it starts and ends with the same node, each element
   has an edge to the next, and no other node occurs twice *)
C16_DetectedCyclesAreReal ==
  \A c \in 1..Len(circularDeps) :
    IsRealCycle(buildDependencyGraph(results), circularDeps[c])

(* two cycles were detected and one of them goes through three nodes *)
C16_Witness ==
  /\ Len(circularDeps) >= 2
  /\ \E c \in 1..Len(circularDeps) : Len(circularDeps[c]) = 4


(* the body of the schema of a result mentions the result's own base schema *)
ReferencesItself(result) ==
  \E p \in 1..Len(fieldDefinitions(result.schema)) :
    fieldDefinitions(result.schema)[p]
      = Word(cDrx \o toSingular(toPascalCase(result.collectionName)) \o cSchema)

(* C17: a collection whose schema references its own schema (a relation of
   the collection to itself) is returned by generate() in the lazy form *)
C17_SelfRelationIsLazy ==
  returned =>
    \A k \in 1..Len(results) :
      (results[k].schema # NoText /\ ReferencesItself(results[k]))
      => IsLazy(results[k].schema)


(* the identifier of the base schema, and of the base type, of a result *)
BaseSchemaName(result) ==
  IF result.schema # NoText THEN result.schema[2].word
  ELSE cDrx \o toSingular(toPascalCase(result.collectionName)) \o cSchema

BaseTypeName(result) ==
  IF result.type # NoText THEN result.type[2].word
  ELSE cDrs \o toPascalCase(result.collectionName)

Mentions(text, identifier) == \E p \in 1..Len(text) : text[p] = Word(identifier)

(* the schema or the type of result a references the base schema or the
   base type of result b *)
References(a, b) ==
  \/ Mentions(a.schema, BaseSchemaName(b))
  \/ Mentions(a.schema, BaseTypeName(b))
  \/ Mentions(a.type, BaseSchemaName(b))
  \/ Mentions(a.type, BaseTypeName(b))

NodeOf(result) == toSingular(toPascalCase(result.collectionName))

(* C18: the graph has one node per result, an edge A -> B for every two
   different results A and B where the schema or type of A references the
   base schema or base type of B, whatever B is called, and no edge from a
   node to itself *)
C18_GraphHasEveryReference ==
  LET graph == buildDependencyGraph(results)
  IN /\ Len(graph) = Len(results)
     /\ \A i, j \in 1..Len(results) :
          (i # j /\ References(results[i], results[j]))
          => NodeOf(results[j]) \in Range(MapGet(graph, NodeOf(results[i])))
     /\ \A g \in 1..Len(graph) : graph[g].node \notin Range(graph[g].deps)


----------------------------------------------------------------------------
(* Properties of the skipped collections and of the regeneration *)

(* C19: a collection that generate() logged as skipped has no entry in the
   returned results, and none of the files written was written for it (each
   collection file is written from one result) *)
C19_SkippedHasNoResultNoFile ==
  /\ \A c \in skipped : c \notin ResultNames
  /\ returned =>
       /\ Len(written) = Len(results) + 1
       /\ \A w \in 2..Len(written) :
            /\ written[w].path = filePathOf(results[w - 1])
            /\ results[w - 1].collectionName \notin skipped

(* generate() returned results and wrote their files after it had skipped a
   collection *)
C19_Witness ==
  /\ returned
  /\ skipped # {}
  /\ results # <<>>
  /\ Len(written) = Len(results) + 1


(* C20: a step of the regeneration changes only the schema of results whose
   singular name lies on a detected cycle; the other schemas, every type and
   collection name, and the order and number of the results stay as they were *)
C20_RegenerationFrame ==
  [][pc = "regen" =>
       /\ Len(results') = Len(results)
       /\ \A k \in 1..Len(results) :
            /\ results'[k].collectionName = results[k].collectionName
            /\ results'[k].type = results[k].type
            /\ results'[k].schema # results[k].schema
               => isPartOfCircularDependency(
                    toSingular(toPascalCase(results[k].collectionName)), circularDeps)]_vars

(* the regeneration is over: it made one schema lazy and left another as it was *)
C20_Witness ==
  /\ pc = "write"
  /\ \E k \in 1..Len(results) : IsLazy(results[k].schema)
  /\ \E k \in 1..Len(results) : results[k].schema # NoText /\ ~IsLazy(results[k].schema)

----------------------------------------------------------------------------
(* file-schemas.ts *)

(* the writes of file-schemas.ts so far *)
FileSchemasWrites == {k \in 1..Len(written) : written[k].path = cFileSchemasPath}

(* writeFiles has called writeFileSchemas and not thrown *)
WriteFilesRuns == pc \in {"write", "returned"}

(* C21: once writeFiles is past writeFileSchemas, file-schemas.ts was written
   exactly once and is the first write, before every collection file; the
   step of writeFileSchemas writes the fallback content exactly when its
   fetch of the fields of directus_files fails, writes the generated content
   otherwise, and in both cases goes on to the collection files with no
   error for the caller of generate(). *)
C21_FileSchemasOnceFirstFallback ==
  /\ [](WriteFilesRuns =>
          /\ FileSchemasWrites = {1}
          /\ written[1].content \in {fileSchemasContent, fallbackContent})
  /\ [][pc = "regen" /\ idx > Len(results) =>
          /\ pc' = "write"
          /\ error' = error
          /\ written' = Append(written, written'[Len(written')])
          /\ written'[Len(written')].path = cFileSchemasPath
          /\ written'[Len(written')].content =
               IF failures' > failures THEN fallbackContent ELSE fileSchemasContent]_vars

(* a run that returned after the fetch of directus_files failed: the fallback
   was written first and two collection files after it *)
C21_Witness ==
  /\ pc = "returned"
  /\ error = "none"
  /\ failures = 1
  /\ skipped = {}
  /\ Len(written) = 3
  /\ written[1] = [path |-> cFileSchemasPath, content |-> fallbackContent]

----------------------------------------------------------------------------
(* ImportUtils: the import statements of the related collections *)

(* ImportUtils.extractRelatedCollections: the Set in insertion order *)
ImportUtils_extractRelatedCollections(result) ==
  LET self == StringUtils_toSingular(toPascalCase(result.collectionName))
      keepSchema(n) == n # self /\ n # cFile /\ n # cImageFile
      keepType(n) == ~isDerivedName(n) /\ n # cFile /\ n # cImageFile /\ n # self
      inFields == schemaMatches(fieldDefinitions(result.schema))
      fromSchema == SelectSeq([i \in 1..Len(inFields) |-> schemaRefName(inFields[i])],
                              keepSchema)
      inType == typeMatches(result.type)
      fromType == SelectSeq([i \in 1..Len(inType) |-> typeRefName(inType[i])], keepType)
  IN AddAllOrdered(AddAllOrdered(<<>>, fromSchema), fromType)

(* the predicate of results.find(...) in generateImportStatements *)
ImportUtils_isRelatedCollection(r, singularName) ==
  \/ StringUtils_toSingular(toPascalCase(r.collectionName)) = singularName
  \/ StringUtils_toSingular(toPascalCase(removeFirst(r.collectionName, cDirectusPrefix)))
       = singularName

(* results.find(...): the index of the first match, 0 when undefined *)
ImportUtils_findRelated(results_, singularName) ==
  IF \E i \in 1..Len(results_) : ImportUtils_isRelatedCollection(results_[i], singularName)
  THEN CHOOSE i \in 1..Len(results_) :
         /\ ImportUtils_isRelatedCollection(results_[i], singularName)
         /\ \A j \in 1..(i - 1) : ~ImportUtils_isRelatedCollection(results_[j], singularName)
  ELSE 0

(* the file name generateImportStatements imports a collection from *)
relatedFileName(collectionName) == toKebabCase(collectionName)

(* one import of the loop: <<>> when no related collection is found *)
ImportUtils_importOf(singularName, results_) ==
  LET k == ImportUtils_findRelated(results_, singularName)
      relatedCollection == results_[k]
      isSystemCollection == startsWith(relatedCollection.collectionName, cDirectusPrefix)
      baseSingularName == removeFirst(singularName, cDirectus)
      schemaName == IF isSystemCollection
                    THEN cDrx \o cDirectus \o baseSingularName \o cSchema
                    ELSE cDrx \o baseSingularName \o cSchema
      typeName == IF isSystemCollection
                  THEN cDrs \o cDirectus \o baseSingularName
                  ELSE cDrs \o baseSingularName
  IN IF k = 0 THEN <<>>
     ELSE <<Lit("import { "), Word(schemaName), Lit(", type "), Word(typeName),
            Lit(" } from './"), Word(relatedFileName(relatedCollection.collectionName)),
            Lit("';")>>

RECURSIVE ImportUtils_importsFrom(_, _, _, _)
ImportUtils_importsFrom(related, k, results_, processed) ==
  IF k > Len(related) THEN <<>>
  ELSE LET imp == ImportUtils_importOf(related[k], results_)
       IN IF imp = <<>> \/ imp \in processed
          THEN ImportUtils_importsFrom(related, k + 1, results_, processed)
          ELSE imp \o ImportUtils_importsFrom(related, k + 1, results_,
                                              processed \cup {imp})

(* ImportUtils.generateImportStatements: both branches on isCircular emit the
   same statement *)
generateImportStatements(result, results_, circularDeps_) ==
  ImportUtils_importsFrom(ImportUtils_extractRelatedCollections(result), 1, results_, {})

(* the module paths of import statements, in order *)
ModulePaths(statements) ==
  LET at == SelectSeq([q \in 1..Len(statements) |-> q],
                      LAMBDA q : statements[q] = Lit(" } from './"))
  IN [i \in 1..Len(at) |-> statements[at[i] + 1].word]

(* the related collections for which generateImportStatements emits an
   import, as indexes into results, in the order of the statements *)
ImportedCollections(result, results_) ==
  LET related == ImportUtils_extractRelatedCollections(result)
      found == SelectSeq(related, LAMBDA n : ImportUtils_findRelated(results_, n) # 0)
  IN [i \in 1..Len(found) |-> ImportUtils_findRelated(results_, found[i])]

(* C22: when generate() has returned, every import statement that
   ImportUtils.generateImportStatements produces for a result names as its
   module the path, without '.ts', of the file that writeFiles wrote for the
   related collection of that statement *)
C22_ImportPathIsWrittenFileName ==
  returned =>
    \A k \in 1..Len(results) :
      LET paths == ModulePaths(generateImportStatements(results[k], results, circularDeps))
          targets == ImportedCollections(results[k], results)
      IN Len(paths) = Len(targets) =>
           \A i \in 1..Len(paths) : paths[i] \o cDotTs = written[targets[i] + 1].path

====
